---- MODULE Spec2Model ----
(***************************************************************************)
(* AesGcmEnhanced (src/aes_gcm_iot.py): a session holding a key, a 12-byte *)
(* IV buffer and a counter, with the AES-GCM engine of the cryptography    *)
(* package behind encrypt and decrypt.                                     *)
(*                                                                         *)
(* Byte strings are sequences of numbers.  os.urandom is a choice among    *)
(* few outputs.  The 32-bit width of the counter is CounterBits.           *)
(***************************************************************************)
EXTENDS Integers, Sequences, FiniteSets, TLC

\* ---------------------------------------------------------------- bounds
\* width of the IV counter in bits (32 in the source)
CounterBits == 2

\* ------------------------------------------------------ program constants
IvSize == 12
PrefixSize == 8
TagSize == 16
\* the smallest and the largest of the AES key sizes the callers configure
KeySizes == {128, 256}
\* __init__(self, key_size=128, persistent_iv=True)
DefaultKeySize == 128

\* Python's None, and a present value
None == [some |-> FALSE, v |-> <<>>]
Some(x) == [some |-> TRUE, v |-> x]

\* bytearray(n): n zero bytes
ZeroBytes(n) == [i \in 1..n |-> 0]

\* os.urandom(n): the outputs the model draws from, n times one byte of RandBytes
RandBytes == {0, 1}
Urandom(n) == {[i \in 1..n |-> b] : b \in RandBytes}

\* self._max_iv_counter = 2 ** 32 - 1
MaxIvCounter == 2 ^ CounterBits - 1

\* the largest value struct format 'I' holds
MaxUInt == 2 ^ CounterBits - 1

VARIABLES
    key_size,        \* self.key_size
    persistent_iv,   \* self.persistent_iv
    key,             \* self.key: None or Some(bytes)
    iv_counter,      \* self._iv_counter
    iv_buffer,       \* self._iv_buffer
    initialized,     \* self._initialized
    calls,           \* generate_iv calls since construction, saturating at 2^CounterBits
    held,            \* what the caller kept of one earlier generate_iv or encrypt call
    result,          \* the last call: its name, arguments, outcome and return value
    pc,              \* per thread: position inside a concurrent encrypt call
    loc              \* per thread: the locals of that call

vars == <<key_size, persistent_iv, key, iv_counter, iv_buffer, initialized,
          calls, held, result, pc, loc>>

\* self.key_bytes = key_size // 8
key_bytes == key_size \div 8

\* ------------------------------------------------------------ the session
\* the mutable attributes of self
Self == [key |-> key, iv_counter |-> iv_counter, iv_buffer |-> iv_buffer,
         initialized |-> initialized]

\* the four bytes least significant first, as '<I' packs them
PackLE(c) == <<c % 256, (c \div 256) % 256, (c \div 65536) % 256, (c \div 16777216) % 256>>

\* struct.pack('>I', c): four bytes, most significant first
PackBE(c) == <<(c \div 16777216) % 256, (c \div 65536) % 256, (c \div 256) % 256, c % 256>>

\* struct.pack_into('>I', buf, off, c): buf with bytes off..off+3 overwritten
pack_into(buf, off, c) ==
    [i \in 1..Len(buf) |->
        IF i > off /\ i <= off + 4 THEN PackBE(c)[i - off] ELSE buf[i]]

\* generate_key that also drops the nonce state
generate_key_reset(s, rndkey) == [s EXCEPT !.key = Some(rndkey), !.initialized = FALSE]

\* generate_key: self.key = os.urandom(self.key_bytes)
generate_key(s, rndkey) == [s EXCEPT !.key = Some(rndkey)]

\* the length test accepting shorter keys
set_key_ok_short(k) == Len(k) <= key_bytes

\* set_key: the length test
set_key_ok(k) == Len(k) = key_bytes

\* set_key without the length test
set_key_unchecked(s, k) == [s EXCEPT !.key = Some(k)]

\* set_key that also drops the nonce state
set_key_reset(s, k) ==
    IF set_key_ok(k) THEN [s EXCEPT !.key = Some(k), !.initialized = FALSE] ELSE s

\* set_key: the length test, then self.key = key
set_key(s, k) == IF set_key_ok(k) THEN [s EXCEPT !.key = Some(k)] ELSE s

\* _init_iv_buffer that never sets the flag
init_iv_buffer_no_flag(s, rnd8) ==
    IF persistent_iv
    THEN [s EXCEPT !.iv_buffer = rnd8 \o SubSeq(@, PrefixSize + 1, IvSize),
                   !.iv_counter = 0]
    ELSE s

\* _init_iv_buffer that leaves the counter where it is
init_iv_buffer_keep_counter(s, rnd8) ==
    IF persistent_iv
    THEN [s EXCEPT !.iv_buffer = rnd8 \o SubSeq(@, PrefixSize + 1, IvSize),
                   !.initialized = TRUE]
    ELSE [s EXCEPT !.initialized = TRUE]

\* _init_iv_buffer
init_iv_buffer(s, rnd8) ==
    IF persistent_iv
    THEN [s EXCEPT !.iv_buffer = rnd8 \o SubSeq(@, PrefixSize + 1, IvSize),
                   !.iv_counter = 0,
                   !.initialized = TRUE]
    ELSE [s EXCEPT !.initialized = TRUE]

\* the exhaustion test taken one call early
exhausted_early(c) == c >= MaxIvCounter - 1

\* the exhaustion test with > for >=
exhausted_late(c) == c > MaxIvCounter

\* the exhaustion test of generate_iv
exhausted(c) == c >= MaxIvCounter

\* generate_iv without the strategy test: the counter path taken always
generate_iv_counter_always(s, rnd8, rnd12) ==
    LET s1 == IF ~s.initialized THEN init_iv_buffer(s, rnd8) ELSE s
        s2 == IF exhausted(s1.iv_counter) THEN init_iv_buffer(s1, rnd8) ELSE s1
        c  == s2.iv_counter + 1
        s3 == [s2 EXCEPT !.iv_counter = c]
    IN  IF c > MaxUInt
        THEN [s |-> s3, err |-> "struct.error", iv |-> <<>>]
        ELSE [s |-> [s3 EXCEPT !.iv_buffer = pack_into(@, PrefixSize, c)],
              err |-> "",
              iv |-> pack_into(s3.iv_buffer, PrefixSize, c)]

\* generate_iv: [s: self afterwards, err: the exception or "", iv: the bytes returned]
generate_iv(s, rnd8, rnd12) ==
    LET s1 == IF ~s.initialized THEN init_iv_buffer(s, rnd8) ELSE s
    IN  IF ~persistent_iv
        THEN [s |-> [s1 EXCEPT !.iv_buffer = rnd12], err |-> "", iv |-> rnd12]
        ELSE LET s2 == IF exhausted(s1.iv_counter) THEN init_iv_buffer(s1, rnd8) ELSE s1
                 c  == s2.iv_counter + 1
                 s3 == [s2 EXCEPT !.iv_counter = c]
             IN  IF c > MaxUInt
                 THEN [s |-> s3, err |-> "struct.error", iv |-> <<>>]
                 ELSE [s |-> [s3 EXCEPT !.iv_buffer = pack_into(@, PrefixSize, c)],
                       err |-> "",
                       iv |-> pack_into(s3.iv_buffer, PrefixSize, c)]

\* ------------------------------------------------------- the AES-GCM engine
\* one byte XOR another
RECURSIVE Xor(_, _)
Xor(a, b) ==
    IF a = 0 /\ b = 0 THEN 0
    ELSE (((a % 2) + (b % 2)) % 2) + 2 * Xor(a \div 2, b \div 2)

RECURSIVE SumBytes(_)
SumBytes(s) == IF s = <<>> THEN 0 ELSE Head(s) + SumBytes(Tail(s))

\* byte i of the key stream of (k, iv)
Keystream(k, iv, i) == (Head(k) + SumBytes(iv) + i) % 2

\* encryptor.update(data) + encryptor.finalize(): CTR mode, no padding
GcmCrypt(k, iv, data) == [i \in 1..Len(data) |-> Xor(data[i], Keystream(k, iv, i))]

\* a number for each byte string over {0, 1}, different strings different numbers
RECURSIVE Code(_)
Code(s) == IF s = <<>> THEN 0 ELSE (1 + (Head(s) % 2)) + 2 * Code(Tail(s))

\* the IV as the tag sees it, each byte doubled, a missing byte being 4
IvField(iv) == [i \in 1..IvSize |-> IF i <= Len(iv) THEN 2 * iv[i] ELSE 4]

\* encryptor.tag: TagSize bytes that differ whenever key, iv, authenticated data or
\* ciphertext differ; every byte is even, so a tag with a bit flipped (FlipBit) is
\* the tag of nothing
GcmTag(k, iv, ad, ct) ==
    <<IF k = <<>> THEN 0 ELSE 2 * k[1]>> \o IvField(iv)
        \o <<2 * Code(ad), 2 * Code(ct), 2 * Len(k)>>

\* `if associated_data:` is false for None and for b""
Truthy(a) == a.some /\ a.v # <<>>

\* the bytes given to authenticate_additional_data (none given: nothing authenticated)
AuthData(a) == IF Truthy(a) THEN a.v ELSE <<>>

\* modes.GCM(iv, tag): the engine takes IVs of 8 to 128 bytes and tags of at least
\* MinTagSize bytes, and raises ValueError for others
MinIvSize == 8
MaxIvSize == 128
MinTagSize == 16
GcmParamsOk(iv, tag) ==
    Len(iv) >= MinIvSize /\ Len(iv) <= MaxIvSize /\ Len(tag) >= MinTagSize

\* ----------------------------------------------------- encrypt and decrypt
\* encrypt generating a key on every call
encrypt_rekey(s, rndkey, rnd8, rnd12, pt, aad) ==
    LET s0 == generate_key(s, rndkey)
        g  == generate_iv(s0, rnd8, rnd12)
        k  == g.s.key.v
        ct == GcmCrypt(k, g.iv, pt)
    IN  IF g.err # ""
        THEN [s |-> g.s, err |-> g.err, iv |-> <<>>, ct |-> <<>>, tag |-> <<>>]
        ELSE [s |-> g.s, err |-> "", iv |-> g.iv, ct |-> ct,
              tag |-> GcmTag(k, g.iv, AuthData(aad), ct)]

\* encrypt: [s, err, iv, ct, tag]
encrypt(s, rndkey, rnd8, rnd12, pt, aad) ==
    LET s0 == IF s.key = None THEN generate_key(s, rndkey) ELSE s
        g  == generate_iv(s0, rnd8, rnd12)
        k  == g.s.key.v
        ct == GcmCrypt(k, g.iv, pt)
    IN  IF g.err # ""
        THEN [s |-> g.s, err |-> g.err, iv |-> <<>>, ct |-> <<>>, tag |-> <<>>]
        ELSE [s |-> g.s, err |-> "", iv |-> g.iv, ct |-> ct,
              tag |-> GcmTag(k, g.iv, AuthData(aad), ct)]

\* decrypt that authenticates no associated data
decrypt_no_aad(s, iv, ct, tag, aad) ==
    IF s.key = None
    THEN [err |-> "ValueError", pt |-> <<>>]
    ELSE LET k == s.key.v
         IN  IF tag = GcmTag(k, iv, <<>>, ct)
             THEN [err |-> "", pt |-> GcmCrypt(k, iv, ct)]
             ELSE [err |-> "InvalidTag", pt |-> <<>>]

\* decrypt that returns what update() gave without finalize() checking the tag
decrypt_no_verify(s, iv, ct, tag, aad) ==
    IF s.key = None
    THEN [err |-> "ValueError", pt |-> <<>>]
    ELSE [err |-> "", pt |-> GcmCrypt(s.key.v, iv, ct)]

\* decrypt that generates a key when none is set, as encrypt does
decrypt_autokey(s, iv, ct, tag, aad) ==
    LET k == IF s.key = None THEN ZeroBytes(key_bytes) ELSE s.key.v
    IN  IF tag = GcmTag(k, iv, AuthData(aad), ct)
        THEN [err |-> "", pt |-> GcmCrypt(k, iv, ct)]
        ELSE [err |-> "InvalidTag", pt |-> <<>>]

\* decrypt: [err, pt]; self is not written
decrypt(s, iv, ct, tag, aad) ==
    IF s.key = None \/ ~GcmParamsOk(iv, tag)
    THEN [err |-> "ValueError", pt |-> <<>>]
    ELSE LET k == s.key.v
         IN  IF tag = GcmTag(k, iv, AuthData(aad), ct)
             THEN [err |-> "", pt |-> GcmCrypt(k, iv, ct)]
             ELSE [err |-> "InvalidTag", pt |-> <<>>]

\* ------------------------------------------------------- the combined frame
Max(a, b) == IF a >= b THEN a ELSE b

\* a slice bound as Python reads it on a string of n bytes: negative bounds count
\* from the end, and every bound is clipped to 0..n
PyBound(n, i) == IF i < 0 THEN Max(n + i, 0) ELSE IF i > n THEN n ELSE i

\* s[lo:hi]
PySlice(s, lo, hi) == SubSeq(s, PyBound(Len(s), lo) + 1, PyBound(Len(s), hi))

\* s[lo:]
PySliceFrom(s, lo) == SubSeq(s, PyBound(Len(s), lo) + 1, Len(s))

\* buf[lo:hi] = v on a bytearray: the bytes lo..hi-1 are replaced by v
PySliceAssign(buf, lo, hi, v) ==
    LET a == PyBound(Len(buf), lo)
        b == Max(PyBound(Len(buf), hi), a)
    IN  SubSeq(buf, 1, a) \o v \o SubSeq(buf, b + 1, Len(buf))

\* the buffer with the tag assigned to result[len(iv):]
CombinedBuffer_tag_over_ct(iv, ct, tag) ==
    LET r0 == ZeroBytes(Len(iv) + Len(ct) + Len(tag))
        r1 == PySliceAssign(r0, 0, Len(iv), iv)
        r2 == PySliceAssign(r1, Len(iv), Len(iv) + Len(ct), ct)
    IN  PySliceAssign(r2, Len(iv), Len(r2), tag)

\* the buffer encrypt_combined fills: bytearray(total_size), then the three slice
\* assignments
CombinedBuffer(iv, ct, tag) ==
    LET r0 == ZeroBytes(Len(iv) + Len(ct) + Len(tag))
        r1 == PySliceAssign(r0, 0, Len(iv), iv)
        r2 == PySliceAssign(r1, Len(iv), Len(iv) + Len(ct), ct)
    IN  PySliceAssign(r2, Len(iv) + Len(ct), Len(r2), tag)

\* encrypt_combined: [s, err, frame, iv_len, tag_len]
encrypt_combined(s, rndkey, rnd8, rnd12, pt, aad) ==
    LET e == encrypt(s, rndkey, rnd8, rnd12, pt, aad)
    IN  IF e.err # ""
        THEN [s |-> e.s, err |-> e.err, frame |-> <<>>, iv_len |-> 0, tag_len |-> 0]
        ELSE [s |-> e.s, err |-> "", frame |-> CombinedBuffer(e.iv, e.ct, e.tag),
              iv_len |-> Len(e.iv), tag_len |-> Len(e.tag)]

\* the slices with the ciphertext taken as combined_data[iv_size:]
FrameSlices_ct_to_end(frame, iv_size, tag_size) ==
    [iv  |-> PySlice(frame, 0, iv_size),
     tag |-> PySliceFrom(frame, 0 - tag_size),
     ct  |-> PySliceFrom(frame, iv_size)]

\* the three slices decrypt_combined takes of the frame
FrameSlices(frame, iv_size, tag_size) ==
    [iv  |-> PySlice(frame, 0, iv_size),
     tag |-> PySliceFrom(frame, 0 - tag_size),
     ct  |-> PySlice(frame, iv_size, 0 - tag_size)]

\* decrypt_combined: the slices, then decrypt
decrypt_combined(s, frame, iv_size, tag_size, aad) ==
    LET x == FrameSlices(frame, iv_size, tag_size)
    IN  decrypt(s, x.iv, x.ct, x.tag, aad)

\* ------------------------------------------------- callers and their inputs
Plaintexts == {<<>>, <<0, 1>>}
Aads == {None, Some(<<>>), Some(<<1>>)}

\* the key lengths callers pass to set_key
KeyLens == {0, 16, 24, 32}
SetKeyInputs == UNION {Urandom(n) : n \in KeyLens}

Threads == {1, 2}

\* a record of byte strings with nothing in it
Blank == [key |-> <<>>, iv |-> <<>>, ct |-> <<>>, tag |-> <<>>, pt |-> <<>>, aad |-> None,
          frame |-> <<>>]

NoHeld == [kind |-> "none", m |-> Blank]

\* the locals of a call not yet made
NoLocals == [call |-> "", ret_to |-> "", tmp |-> 0, err |-> "", m |-> Blank]

\* the last call: its name, "ok" or the exception raised, and the value returned
Res(op, status, ret) == [op |-> op, status |-> status, ret |-> ret]

Status(err) == IF err = "" THEN "ok" ELSE err

Min(a, b) == IF a <= b THEN a ELSE b

\* one bit of a byte flipped, one byte of a string flipped
FlipBit(b) == IF b % 2 = 0 THEN b + 1 ELSE b - 1
FlipAt(s, j) == [s EXCEPT ![j] = FlipBit(@)]

\* what a caller holding message m may pass to decrypt: m itself, or m with a bit of
\* the nonce, the ciphertext or the tag flipped, the ciphertext cut, or another aad
IvFlips == {1, IvSize}
TagFlips == {1, TagSize - 1}
Tampered(m) ==
    {m}
    \cup {[m EXCEPT !.iv = FlipAt(@, j)] : j \in IvFlips}
    \cup {[m EXCEPT !.ct = FlipAt(@, j)] : j \in 1..Len(m.ct)}
    \cup {[m EXCEPT !.ct = SubSeq(@, 1, j - 1)] : j \in 1..Len(m.ct)}
    \cup {[m EXCEPT !.tag = FlipAt(@, j)] : j \in TagFlips}
    \cup {[m EXCEPT !.aad = a] : a \in Aads \cup {Some(<<0>>)}}

\* a message no encrypt produced
Forged == [Blank EXCEPT !.iv = ZeroBytes(IvSize), !.tag = ZeroBytes(TagSize)]

DecryptInputs == IF held.kind = "enc" THEN Tampered(held.m) ELSE {Forged}

\* a frame one byte short of IvSize + TagSize that a holder of key k builds so that
\* its last TagSize bytes, which start on the last byte of the IV, are the tag of
\* the empty plaintext under its first IvSize bytes
CraftedShort(k) ==
    LET iv == ZeroBytes(IvSize) IN iv \o Tail(GcmTag(k, iv, <<>>, <<>>))

\* a call of decrypt_combined
Call(frame, iv_size, tag_size, aad) ==
    [frame |-> frame, iv_size |-> iv_size, tag_size |-> tag_size, aad |-> aad]

\* what a caller holding the frame f of encrypt_combined(pt, aad) may pass to
\* decrypt_combined with the default sizes: f with any aad, f with a bit of the
\* nonce, of the byte after it or of the tag flipped
FrameFlips(f) == {1, IvSize + 1, Len(f)}
FrameCalls(f, aad) ==
    {Call(f, IvSize, TagSize, a) : a \in Aads}
    \cup {Call(FlipAt(f, j), IvSize, TagSize, aad) : j \in FrameFlips(f)}

\* a frame no encrypt_combined produced
ForgedCalls == {Call(ZeroBytes(IvSize + TagSize), IvSize, TagSize, None)}

\* any frame with any sizes: frames of every length up to MaxFrameLen whose bytes
\* differ from place to place, and the frame a key holder crafts
MaxFrameLen == 30
Ramp(n) == [i \in 1..n |-> i]
AnyFrames ==
    {Ramp(n) : n \in 0..MaxFrameLen}
    \cup {CraftedShort(k) : k \in Urandom(key_bytes)}
IvSizes == {0, PrefixSize, IvSize}
TagSizes == {0, 1, TagSize, TagSize + 4}
AnyCalls(f) == {Call(f, i, g, None) : i \in IvSizes, g \in TagSizes}

CombinedCalls ==
    CASE held.kind = "frame" -> FrameCalls(held.m.frame, held.m.aad)
      [] held.kind = "any" -> AnyCalls(held.m.frame)
      [] OTHER -> ForgedCalls

\* the random draws a call can consume in the current state
KeyDraws == IF key = None THEN Urandom(key_bytes) ELSE {<<>>}
PrefixDraws ==
    IF persistent_iv /\ (~initialized \/ exhausted(iv_counter))
    THEN Urandom(PrefixSize) ELSE {<<>>}
IvDraws == IF persistent_iv THEN {<<>>} ELSE Urandom(IvSize)

\* ------------------------------------------------------------------ actions
Commit(s) ==
    /\ key' = s.key
    /\ iv_counter' = s.iv_counter
    /\ iv_buffer' = s.iv_buffer
    /\ initialized' = s.initialized
    /\ UNCHANGED <<key_size, persistent_iv>>

\* __init__
Init ==
    /\ key_size \in KeySizes
    /\ persistent_iv \in BOOLEAN
    /\ key = None
    /\ iv_counter = 0
    /\ iv_buffer = ZeroBytes(IvSize)
    /\ initialized = FALSE
    /\ calls = 0
    /\ held = NoHeld
    /\ result = Res("__init__", "ok", Blank)
    /\ pc = [t \in Threads |-> "idle"]
    /\ loc = [t \in Threads |-> NoLocals]

\* cipher.generate_key()
GenerateKeyOn(rndkey) ==
    /\ Commit(generate_key(Self, rndkey))
    /\ result' = Res("generate_key", "ok", [Blank EXCEPT !.key = rndkey])
    /\ UNCHANGED <<calls, held, pc, loc>>

GenerateKey == \E rndkey \in Urandom(key_bytes) : GenerateKeyOn(rndkey)

\* cipher.set_key(k)
SetKeyOn(k) ==
    /\ Commit(set_key(Self, k))
    /\ result' = Res("set_key", IF set_key_ok(k) THEN "ok" ELSE "ValueError", Blank)
    /\ UNCHANGED <<calls, held, pc, loc>>

SetKey == \E k \in SetKeyInputs : SetKeyOn(k)

\* cipher.generate_iv(); the caller may keep the nonce
GenerateIvOn(rnd8, rnd12, keep) ==
    \E g \in {generate_iv(Self, rnd8, rnd12)} :
        \E m \in {[Blank EXCEPT !.iv = g.iv]} :
            /\ Commit(g.s)
            /\ calls' = Min(calls + 1, 2 ^ CounterBits)
            /\ held' = IF keep /\ g.err = "" THEN [kind |-> "iv", m |-> m] ELSE held
            /\ result' = Res("generate_iv", Status(g.err), m)
            /\ UNCHANGED <<pc, loc>>

GenerateIv ==
    \E rnd8 \in PrefixDraws, rnd12 \in IvDraws, keep \in BOOLEAN :
        GenerateIvOn(rnd8, rnd12, keep)

\* cipher.encrypt(pt, aad); the caller may keep the message with what it encrypts
EncryptOn(rndkey, rnd8, rnd12, pt, aad, keep) ==
    \E e \in {encrypt(Self, rndkey, rnd8, rnd12, pt, aad)} :
        \E m \in {[key |-> e.s.key.v, iv |-> e.iv, ct |-> e.ct, tag |-> e.tag,
                   pt |-> pt, aad |-> aad, frame |-> <<>>]} :
            /\ Commit(e.s)
            /\ calls' = Min(calls + 1, 2 ^ CounterBits)
            /\ held' = IF keep /\ e.err = "" THEN [kind |-> "enc", m |-> m] ELSE held
            /\ result' = Res("encrypt", Status(e.err), [Blank EXCEPT !.iv = e.iv])
            /\ UNCHANGED <<pc, loc>>

Encrypt ==
    \E rndkey \in KeyDraws, rnd8 \in PrefixDraws, rnd12 \in IvDraws,
       pt \in Plaintexts, aad \in Aads, keep \in BOOLEAN :
        EncryptOn(rndkey, rnd8, rnd12, pt, aad, keep)

\* cipher.decrypt(a.iv, a.ct, a.tag, a.aad)
DecryptOn(a) ==
    \E d \in {decrypt(Self, a.iv, a.ct, a.tag, a.aad)} :
        /\ result' = Res("decrypt", Status(d.err), [Blank EXCEPT !.pt = d.pt])
        /\ UNCHANGED <<key_size, persistent_iv, key, iv_counter, iv_buffer,
                       initialized, calls, held, pc, loc>>

Decrypt == \E a \in DecryptInputs : DecryptOn(a)

\* cipher.encrypt_combined(pt, aad); the caller may keep the frame with what it
\* encrypts
EncryptCombinedOn(rndkey, rnd8, rnd12, pt, aad, keep) ==
    \E c \in {encrypt_combined(Self, rndkey, rnd8, rnd12, pt, aad)} :
        \E m \in {[Blank EXCEPT !.key = c.s.key.v, !.pt = pt, !.aad = aad,
                                  !.frame = c.frame]} :
            /\ Commit(c.s)
            /\ calls' = Min(calls + 1, 2 ^ CounterBits)
            /\ held' = IF keep /\ c.err = "" THEN [kind |-> "frame", m |-> m] ELSE held
            /\ result' = Res("encrypt_combined", Status(c.err),
                             [Blank EXCEPT !.iv = PySlice(c.frame, 0, c.iv_len)])
            /\ UNCHANGED <<pc, loc>>

EncryptCombined ==
    \E rndkey \in KeyDraws, rnd8 \in PrefixDraws, rnd12 \in IvDraws,
       pt \in Plaintexts, aad \in Aads, keep \in BOOLEAN :
        EncryptCombinedOn(rndkey, rnd8, rnd12, pt, aad, keep)

\* cipher.decrypt_combined(c.frame, c.iv_size, c.tag_size, c.aad)
DecryptCombinedOn(c) ==
    \E d \in {decrypt_combined(Self, c.frame, c.iv_size, c.tag_size, c.aad)} :
        /\ result' = Res("decrypt_combined", Status(d.err), [Blank EXCEPT !.pt = d.pt])
        /\ UNCHANGED <<key_size, persistent_iv, key, iv_counter, iv_buffer,
                       initialized, calls, held, pc, loc>>

DecryptCombined == \E c \in CombinedCalls : DecryptCombinedOn(c)

Next ==
    \/ GenerateKey
    \/ SetKey
    \/ GenerateIv
    \/ Encrypt
    \/ Decrypt

Spec == Init /\ [][Next]_vars

\* the session used through the combined frame: encrypt_combined in place of
\* encrypt, and decrypt_combined on the frames kept
NextCombined ==
    \/ GenerateKey
    \/ SetKey
    \/ GenerateIv
    \/ EncryptCombined
    \/ Decrypt
    \/ DecryptCombined

\* a session constructed with the default key size
InitCombined == Init /\ key_size = DefaultKeySize

SpecCombined == InitCombined /\ [][NextCombined]_vars

\* decrypt_combined alone, on any frame with any sizes, on a session with or
\* without a key
InitCodec ==
    /\ key_size \in KeySizes
    /\ persistent_iv \in BOOLEAN
    /\ key \in {None} \cup {Some(k) : k \in Urandom(key_bytes)}
    /\ iv_counter = 0
    /\ iv_buffer = ZeroBytes(IvSize)
    /\ initialized = FALSE
    /\ calls = 0
    /\ held \in {[kind |-> "any", m |-> [Blank EXCEPT !.frame = f]] : f \in AnyFrames}
    /\ result = Res("__init__", "ok", Blank)
    /\ pc = [t \in Threads |-> "idle"]
    /\ loc = [t \in Threads |-> NoLocals]

SpecCodec == InitCodec /\ [][DecryptCombined]_vars

\* ------------------------------------------------- the object a nonce is
\* generate_iv returning the bytearray itself: `return self._iv_buffer`
ReturnedIv_no_copy(buf) == [buffer |-> TRUE, v |-> buf]

\* return bytes(self._iv_buffer): a new immutable object holding the bytes the
\* buffer holds at the return; buffer says whether the object is the session's
\* bytearray itself
ReturnedIv(buf) == [buffer |-> FALSE, v |-> buf]

\* the bytes a caller reads in an object generate_iv returned
Read(obj) == IF obj.buffer THEN iv_buffer ELSE obj.v

\* cipher.generate_iv(); the caller may keep the object returned
GenerateIvRefOn(rnd8, rnd12, keep) ==
    \E g \in {generate_iv(Self, rnd8, rnd12)} :
        /\ Commit(g.s)
        /\ calls' = Min(calls + 1, 2 ^ CounterBits)
        /\ held' = IF keep /\ g.err = ""
                    THEN [kind |-> "ref", m |-> [Blank EXCEPT !.iv = g.iv],
                          obj |-> ReturnedIv(g.s.iv_buffer)]
                    ELSE held
        /\ result' = Res("generate_iv", Status(g.err), [Blank EXCEPT !.iv = g.iv])
        /\ UNCHANGED <<pc, loc>>

GenerateIvRef ==
    \E rnd8 \in PrefixDraws, rnd12 \in IvDraws, keep \in BOOLEAN :
        GenerateIvRefOn(rnd8, rnd12, keep)

\* cipher.encrypt(pt, aad); the caller may keep the nonce object of the triple,
\* which is the object generate_iv returned to encrypt
EncryptRefOn(rndkey, rnd8, rnd12, pt, aad, keep) ==
    \E e \in {encrypt(Self, rndkey, rnd8, rnd12, pt, aad)} :
        /\ Commit(e.s)
        /\ calls' = Min(calls + 1, 2 ^ CounterBits)
        /\ held' = IF keep /\ e.err = ""
                    THEN [kind |-> "ref", m |-> [Blank EXCEPT !.iv = e.iv],
                          obj |-> ReturnedIv(e.s.iv_buffer)]
                    ELSE held
        /\ result' = Res("encrypt", Status(e.err), [Blank EXCEPT !.iv = e.iv])
        /\ UNCHANGED <<pc, loc>>

EncryptRef ==
    \E rndkey \in KeyDraws, rnd8 \in PrefixDraws, rnd12 \in IvDraws,
       pt \in Plaintexts, aad \in Aads, keep \in BOOLEAN :
        EncryptRefOn(rndkey, rnd8, rnd12, pt, aad, keep)

NextSnapshot ==
    \/ GenerateKey
    \/ GenerateIvRef
    \/ EncryptRef

SpecSnapshot == Init /\ [][NextSnapshot]_vars

\* --------------------------------------------------- two calls on one session
\* Each thread makes one encrypt or generate_iv call on the shared session; a step
\* is one read or one write of an attribute of self, and the steps of the two
\* calls interleave freely (the class takes no lock).

\* the states of self the threads may start from
ActiveStates ==
    IF persistent_iv
    THEN {[iv_counter |-> c, initialized |-> TRUE,
           iv_buffer |-> pack_into(p \o ZeroBytes(IvSize - PrefixSize), PrefixSize, c)] :
              c \in 1..MaxIvCounter, p \in Urandom(PrefixSize)}
    ELSE {[iv_counter |-> 0, initialized |-> TRUE, iv_buffer |-> b] : b \in Urandom(IvSize)}

FreshState == [iv_counter |-> 0, initialized |-> FALSE, iv_buffer |-> ZeroBytes(IvSize)]

InitThreads ==
    /\ key_size \in KeySizes
    /\ persistent_iv \in BOOLEAN
    /\ key \in {None} \cup {Some(k) : k \in Urandom(key_bytes)}
    /\ \E s \in {FreshState} \cup ActiveStates :
        /\ iv_counter = s.iv_counter
        /\ iv_buffer = s.iv_buffer
        /\ initialized = s.initialized
    /\ calls = 0
    /\ held = NoHeld
    /\ result = Res("__init__", "ok", Blank)
    /\ pc = [t \in Threads |-> "idle"]
    /\ loc = [t \in Threads |-> NoLocals]

Goto(t, label) == pc' = [pc EXCEPT ![t] = label]

SessionVars == <<key, iv_counter, iv_buffer, initialized>>
Frame == <<key_size, persistent_iv, calls, held, result>>

\* the call starts
Start(t) ==
    /\ pc[t] = "idle"
    /\ \E call \in {"encrypt", "generate_iv"} :
        /\ loc' = [loc EXCEPT ![t].call = call]
        /\ Goto(t, IF call = "encrypt" THEN "enc_check_key" ELSE "giv_check_init")
    /\ UNCHANGED <<SessionVars, Frame>>

\* encrypt: if self.key is None
EncCheckKey(t) ==
    /\ pc[t] = "enc_check_key"
    /\ Goto(t, IF key = None THEN "enc_gen_key" ELSE "giv_check_init")
    /\ UNCHANGED <<SessionVars, Frame, loc>>

\* generate_key: self.key = os.urandom(self.key_bytes)
EncGenKey(t) ==
    /\ pc[t] = "enc_gen_key"
    /\ \E rndkey \in Urandom(key_bytes) : key' = Some(rndkey)
    /\ Goto(t, "giv_check_init")
    /\ UNCHANGED <<iv_counter, iv_buffer, initialized, Frame, loc>>

\* generate_iv: if not self._initialized
GivCheckInit(t) ==
    /\ pc[t] = "giv_check_init"
    /\ IF ~initialized
       THEN Goto(t, "init_check") /\ loc' = [loc EXCEPT ![t].ret_to = "giv_check_pers"]
       ELSE Goto(t, "giv_check_pers") /\ UNCHANGED loc
    /\ UNCHANGED <<SessionVars, Frame>>

\* _init_iv_buffer: if self.persistent_iv
InitCheck(t) ==
    /\ pc[t] = "init_check"
    /\ Goto(t, IF persistent_iv THEN "init_prefix" ELSE "init_flag")
    /\ UNCHANGED <<SessionVars, Frame, loc>>

\* _init_iv_buffer: self._iv_buffer[0:8] = os.urandom(8)
InitPrefix(t) ==
    /\ pc[t] = "init_prefix"
    /\ \E rnd8 \in Urandom(PrefixSize) :
        iv_buffer' = rnd8 \o SubSeq(iv_buffer, PrefixSize + 1, IvSize)
    /\ Goto(t, "init_counter")
    /\ UNCHANGED <<key, iv_counter, initialized, Frame, loc>>

\* _init_iv_buffer: self._iv_counter = 0
InitCounter(t) ==
    /\ pc[t] = "init_counter"
    /\ iv_counter' = 0
    /\ Goto(t, "init_flag")
    /\ UNCHANGED <<key, iv_buffer, initialized, Frame, loc>>

\* _init_iv_buffer: self._initialized = True, and return
InitFlag(t) ==
    /\ pc[t] = "init_flag"
    /\ initialized' = TRUE
    /\ Goto(t, loc[t].ret_to)
    /\ UNCHANGED <<key, iv_counter, iv_buffer, Frame, loc>>

\* generate_iv: if not self.persistent_iv
GivCheckPers(t) ==
    /\ pc[t] = "giv_check_pers"
    /\ Goto(t, IF ~persistent_iv THEN "rand_fill" ELSE "giv_check_exh")
    /\ UNCHANGED <<SessionVars, Frame, loc>>

\* generate_iv: self._iv_buffer[:] = os.urandom(12)
RandFill(t) ==
    /\ pc[t] = "rand_fill"
    /\ \E rnd12 \in Urandom(IvSize) : iv_buffer' = rnd12
    /\ Goto(t, "giv_ret")
    /\ UNCHANGED <<key, iv_counter, initialized, Frame, loc>>

\* generate_iv: if self._iv_counter >= self._max_iv_counter
GivCheckExh(t) ==
    /\ pc[t] = "giv_check_exh"
    /\ IF exhausted(iv_counter)
       THEN Goto(t, "init_check") /\ loc' = [loc EXCEPT ![t].ret_to = "giv_load"]
       ELSE Goto(t, "giv_load") /\ UNCHANGED loc
    /\ UNCHANGED <<SessionVars, Frame>>

\* generate_iv: self._iv_counter += 1, the read
GivLoad(t) ==
    /\ pc[t] = "giv_load"
    /\ loc' = [loc EXCEPT ![t].tmp = iv_counter]
    /\ Goto(t, "giv_store")
    /\ UNCHANGED <<SessionVars, Frame>>

\* generate_iv: self._iv_counter += 1, the write
GivStore(t) ==
    /\ pc[t] = "giv_store"
    /\ iv_counter' = loc[t].tmp + 1
    /\ Goto(t, "giv_pack_load")
    /\ UNCHANGED <<key, iv_buffer, initialized, Frame, loc>>

\* generate_iv: the argument self._iv_counter of struct.pack_into
GivPackLoad(t) ==
    /\ pc[t] = "giv_pack_load"
    /\ loc' = [loc EXCEPT ![t].tmp = iv_counter]
    /\ Goto(t, "giv_pack")
    /\ UNCHANGED <<SessionVars, Frame>>

\* generate_iv: struct.pack_into('>I', self._iv_buffer, 8, counter)
GivPack(t) ==
    /\ pc[t] = "giv_pack"
    /\ IF loc[t].tmp > MaxUInt
       THEN /\ loc' = [loc EXCEPT ![t].err = "struct.error"]
            /\ Goto(t, "done")
            /\ UNCHANGED iv_buffer
       ELSE /\ iv_buffer' = pack_into(iv_buffer, PrefixSize, loc[t].tmp)
            /\ Goto(t, "giv_ret")
            /\ UNCHANGED loc
    /\ UNCHANGED <<key, iv_counter, initialized, Frame>>

\* generate_iv: return bytes(self._iv_buffer)
GivRet(t) ==
    /\ pc[t] = "giv_ret"
    /\ loc' = [loc EXCEPT ![t].m.iv = iv_buffer]
    /\ Goto(t, IF loc[t].call = "encrypt" THEN "enc_cipher" ELSE "done")
    /\ UNCHANGED <<SessionVars, Frame>>

\* the plaintext the threads encrypt
ThreadPlaintext == <<0, 1>>

\* encrypt: Cipher(algorithms.AES(self.key), modes.GCM(iv)), update, finalize, tag
EncCipher(t) ==
    /\ pc[t] = "enc_cipher"
    /\ \E ct \in {GcmCrypt(key.v, loc[t].m.iv, ThreadPlaintext)} :
        loc' = [loc EXCEPT ![t].m.key = key.v,
                           ![t].m.pt = ThreadPlaintext,
                           ![t].m.ct = ct,
                           ![t].m.tag = GcmTag(key.v, loc[t].m.iv, AuthData(None), ct)]
    /\ Goto(t, "done")
    /\ UNCHANGED <<SessionVars, Frame>>

NextThreads ==
    \E t \in Threads :
        \/ Start(t)
        \/ EncCheckKey(t)
        \/ EncGenKey(t)
        \/ GivCheckInit(t)
        \/ InitCheck(t)
        \/ InitPrefix(t)
        \/ InitCounter(t)
        \/ InitFlag(t)
        \/ GivCheckPers(t)
        \/ RandFill(t)
        \/ GivCheckExh(t)
        \/ GivLoad(t)
        \/ GivStore(t)
        \/ GivPackLoad(t)
        \/ GivPack(t)
        \/ GivRet(t)
        \/ EncCipher(t)

SpecThreads == InitThreads /\ [][NextThreads]_vars

\* the two calls on a session that has no key
InitKeyless == InitThreads /\ key = None

SpecKeyless == InitKeyless /\ [][NextThreads]_vars

\* ------------------------------------------------------------------ claims
\* the first PrefixSize bytes of a nonce
Prefix(iv) == SubSeq(iv, 1, PrefixSize)

\* the step is a generate_iv call, made directly or by encrypt, that returned a nonce
NonceReturned == result'.op \in {"generate_iv", "encrypt"} /\ result'.status = "ok"

\* C1: under the persistent strategy no encrypt call uses the (key, nonce) pair an
\* earlier encrypt call used, the held message being any earlier encrypt call.
C1_KeyNoncePairNeverRepeats ==
    [][(persistent_iv /\ held.kind = "enc"
            /\ result'.op = "encrypt" /\ result'.status = "ok")
        => ~(key'.v = held.m.key /\ result'.ret.iv = held.m.iv)]_vars

\* C2: under the persistent strategy, while fewer than 2^CounterBits generate_iv
\* calls have been made since construction, the nonce a call returns differs from
\* the nonce of every earlier call and has the same prefix.
C2_FirstNoncesDistinctSamePrefix ==
    [][(persistent_iv /\ held.kind # "none" /\ NonceReturned
            /\ calls' < 2 ^ CounterBits)
        => (result'.ret.iv # held.m.iv
            /\ Prefix(result'.ret.iv) = Prefix(held.m.iv))]_vars

\* C2 witness: the last call before exhaustion returned a nonce with the counter at
\* its maximum, after a call whose nonce the caller kept.
C2_Witness ==
    /\ persistent_iv
    /\ calls = 2 ^ CounterBits - 1
    /\ result.op = "generate_iv"
    /\ held.kind = "iv"
    /\ held.m.iv # result.ret.iv
    /\ result.ret.iv[IvSize] = 2 ^ CounterBits - 1

\* C3: when two encrypt or generate_iv calls have run concurrently on one
\* persistent-strategy session and both returned, they returned different nonces.
C3_ConcurrentCallsDistinctNonces ==
    (persistent_iv /\ \A t \in Threads : pc[t] = "done" /\ loc[t].err = "")
        => loc[1].m.iv # loc[2].m.iv

\* the nonce state of the session
NonceState == <<iv_counter, iv_buffer, initialized>>

C6_SetKeyLengthCheck ==
    [][result'.op = "set_key"
        => \A k \in SetKeyInputs :
            SetKeyOn(k)
                => (/\ (result'.status = "ok") <=> (Len(k) = key_size \div 8)
                    /\ result'.status \in {"ok", "ValueError"}
                    /\ result'.status = "ok" => key' = Some(k)
                    /\ result'.status = "ValueError"
                        => (key' = key /\ NonceState' = NonceState))]_vars

\* C6 witness: set_key failed on a session that holds a key and an advanced counter.
C6_Witness ==
    /\ result.op = "set_key" /\ result.status = "ValueError"
    /\ key # None /\ initialized /\ iv_counter > 0

\* C7: decrypt of a held message (nonce, ciphertext, tag, aad as encrypt returned and
\* took them) on a session whose key is the key of that encrypt returns the plaintext.
C7_RoundTrip ==
    [][(result'.op = "decrypt" /\ held.kind = "enc" /\ key = Some(held.m.key)
            /\ DecryptOn(held.m))
        => (result'.status = "ok" /\ result'.ret.pt = held.m.pt)]_vars

\* C7 witness: decrypt returned the non-empty plaintext of a message encrypted with
\* non-empty aad, after later calls had moved the IV buffer on.
C7_Witness ==
    /\ result.op = "decrypt" /\ result.status = "ok"
    /\ held.kind = "enc" /\ key = Some(held.m.key)
    /\ held.m.pt # <<>> /\ result.ret.pt = held.m.pt
    /\ Truthy(held.m.aad)
    /\ iv_buffer # held.m.iv

\* the bytes of an aad, none for an absent one
AadBytes(a) == IF a.some THEN a.v ELSE <<>>

\* decrypt raised the engine's authentication failure and returned nothing
AuthFailed == result'.status = "InvalidTag" /\ result'.ret.pt = <<>>

\* C8 as stated: decrypt with a nonce, ciphertext, tag or aad other than the held
\* message's, or on a session whose key is not the key of that encrypt, raises the
\* authentication failure and returns no plaintext: a decrypt call that does not
\* end so was given the held message as it is, on a session with that key.
C8_AnyDifferenceFails ==
    [][(result'.op = "decrypt" /\ held.kind = "enc")
        => \/ AuthFailed
           \/ \A a \in DecryptInputs :
                DecryptOn(a)
                    => (/\ a.iv = held.m.iv /\ a.ct = held.m.ct /\ a.tag = held.m.tag
                        /\ a.aad = held.m.aad
                        /\ key = Some(held.m.key))]_vars

\* C8 amended: as C8, with the aad compared by its bytes, an absent aad being the
\* empty one.
C8_ByteDifferenceFails ==
    [][(result'.op = "decrypt" /\ held.kind = "enc")
        => \/ AuthFailed
           \/ \A a \in DecryptInputs :
                DecryptOn(a)
                    => (/\ a.iv = held.m.iv /\ a.ct = held.m.ct /\ a.tag = held.m.tag
                        /\ AadBytes(a.aad) = AadBytes(held.m.aad)
                        /\ key = Some(held.m.key))]_vars

\* C8 witness: decrypt raised the authentication failure on a session that still
\* holds the key of the held message, so what it was given had been altered.
C8_Witness ==
    /\ result.op = "decrypt" /\ result.status = "InvalidTag"
    /\ held.kind = "enc" /\ key = Some(held.m.key)
    /\ held.m.pt # <<>>
    /\ result.ret.pt = <<>>

\* C9 as stated: decrypt on a session with no key raises the authentication failure
\* and leaves the key (none) and the nonce state unchanged.
C9_NoKeyIsAuthFailure ==
    [][(key = None /\ result'.op = "decrypt")
        => (AuthFailed /\ key' = None /\ NonceState' = NonceState)]_vars

\* C9 amended: decrypt on a session with no key raises ValueError ("No key set"), not
\* the engine's authentication failure, returns nothing, and leaves the key (none)
\* and the nonce state unchanged.
C9_NoKeyIsValueError ==
    [][(key = None /\ result'.op = "decrypt")
        => (/\ result'.status = "ValueError"
            /\ result'.ret.pt = <<>>
            /\ key' = None
            /\ NonceState' = NonceState)]_vars

\* C9 witness: decrypt failed on a session without a key whose nonce state
\* generate_iv had initialized.
C9_Witness ==
    /\ result.op = "decrypt" /\ result.status = "ValueError"
    /\ key = None /\ initialized

\* C10: after encrypt the session holds a key of the configured size; a key held
\* before the call is the key held after it; and the message returned is encrypted
\* and authenticated under the key held after the call.
C10_EncryptKey ==
    [][(result'.op = "encrypt" /\ result'.status = "ok")
        => (/\ key' # None
            /\ Len(key'.v) = key_size \div 8
            /\ key # None => key' = key
            /\ (held'.kind = "enc" /\ held'.m.iv = result'.ret.iv
                    /\ held'.m.key = key'.v)
                => (/\ held'.m.ct = GcmCrypt(key'.v, held'.m.iv, held'.m.pt)
                    /\ held'.m.tag = GcmTag(key'.v, held'.m.iv,
                                            AadBytes(held'.m.aad), held'.m.ct)))]_vars

\* C10 witness: the first call that touched the nonce state was an encrypt, and the
\* session holds a key of the configured size.
C10_Witness ==
    /\ result.op = "encrypt" /\ result.status = "ok"
    /\ calls = 1
    /\ key # None /\ Len(key.v) = key_size \div 8
    /\ held.kind = "enc" /\ held.m.key = key.v

\* C11: decrypt_combined on a frame shorter than iv_size + tag_size raises the
\* MalformedFrame (length) error; in particular it does not return a plaintext and
\* does not end with an error of decrypt or of the engine, which the slices reach.
C11_ShortFrameIsMalformed ==
    [][result'.op = "decrypt_combined"
        => \A c \in CombinedCalls :
            (Len(c.frame) < c.iv_size + c.tag_size /\ DecryptCombinedOn(c))
                => result'.status = "MalformedFrame"]_vars

\* the last n bytes of a string
Last(s, n) == SubSeq(s, Len(s) - n + 1, Len(s))

\* C12: encrypt_combined leaves the session as one encrypt call leaves it, the
\* counter of a persistent session one step on, and the frame it returns is the
\* nonce, the ciphertext and the tag of that encrypt one after the other and nothing
\* else: IvSize + len(plaintext) + TagSize bytes, the first IvSize the nonce, the
\* last TagSize the tag.
C12_FrameLayout ==
    [][(result'.op = "encrypt_combined" /\ result'.status = "ok")
        => /\ persistent_iv => iv_counter' \in {iv_counter + 1, 1}
           /\ persistent_iv => iv_buffer' = result'.ret.iv
           /\ held'.kind = "frame"
                => \A rndkey \in KeyDraws, rnd8 \in PrefixDraws, rnd12 \in IvDraws :
                    EncryptCombinedOn(rndkey, rnd8, rnd12, held'.m.pt, held'.m.aad, TRUE)
                        => LET e == encrypt(Self, rndkey, rnd8, rnd12,
                                            held'.m.pt, held'.m.aad)
                               f == held'.m.frame
                           IN  /\ Self' = e.s
                               /\ f = e.iv \o e.ct \o e.tag
                               /\ Len(f) = IvSize + Len(held'.m.pt) + TagSize
                               /\ SubSeq(f, 1, IvSize) = result'.ret.iv
                               /\ Last(f, TagSize)
                                    = GcmTag(key'.v, result'.ret.iv,
                                             AadBytes(held'.m.aad),
                                             SubSeq(f, IvSize + 1, Len(f) - TagSize))]_vars

\* C12 witness: encrypt_combined returned the frame of a non-empty plaintext on a
\* persistent session whose counter had advanced before, and the caller kept it.
C12_Witness ==
    /\ result.op = "encrypt_combined" /\ result.status = "ok"
    /\ persistent_iv /\ iv_counter > 1
    /\ held.kind = "frame" /\ held.m.pt # <<>>
    /\ SubSeq(held.m.frame, 1, IvSize) = iv_buffer
    /\ Len(held.m.frame) = IvSize + Len(held.m.pt) + TagSize

\* C13: decrypt_combined with the default sizes, given a frame encrypt_combined
\* returned and the aad it took, on a session whose key is the key of that call,
\* returns the plaintext, the empty one included.
C13_CombinedRoundTrip ==
    [][(result'.op = "decrypt_combined" /\ held.kind = "frame"
            /\ key = Some(held.m.key)
            /\ DecryptCombinedOn(Call(held.m.frame, IvSize, TagSize, held.m.aad)))
        => (result'.status = "ok" /\ result'.ret.pt = held.m.pt)]_vars

\* C13 witness: decrypt_combined returned the empty plaintext of a frame sealed
\* with non-empty aad, after later calls had moved the IV buffer on.
C13_Witness ==
    /\ result.op = "decrypt_combined" /\ result.status = "ok"
    /\ held.kind = "frame" /\ key = Some(held.m.key)
    /\ held.m.pt = <<>> /\ result.ret.pt = <<>>
    /\ Len(held.m.frame) = IvSize + TagSize
    /\ Truthy(held.m.aad)
    /\ iv_buffer # SubSeq(held.m.frame, 1, IvSize)

\* the state of the session in the words of the state machine
SessionState ==
    CASE key = None /\ ~initialized -> "Uninitialized"
      [] key # None /\ ~initialized -> "KeySet"
      [] key # None /\ initialized -> "Active"
      [] OTHER -> "NonceOnly"

Rank(st) == CASE st = "Uninitialized" -> 0 [] st = "KeySet" -> 1 [] OTHER -> 2

\* C14 as stated: after every step the session is Uninitialized, KeySet or Active,
\* and no step takes it to an earlier one of the three; so the nonce state is never
\* initialized while no key is set.
C14_ThreeStatesForwardOnly ==
    [][/\ SessionState' \in {"Uninitialized", "KeySet", "Active"}
       /\ Rank(SessionState') >= Rank(SessionState)]_vars

\* C14 amended: besides Uninitialized, KeySet and Active the session can be in a
\* fourth state, no key with the nonce state initialized, which only generate_iv
\* called before any key is set enters; no step goes back: a key once set is never
\* removed, the nonce state once initialized stays initialized, and while it is not
\* initialized the counter is 0 and the IV buffer is the zero buffer of construction.
C14_FourStatesForwardOnly ==
    [][/\ key # None => key' # None
       /\ initialized => initialized'
       /\ ~initialized' => (iv_counter' = 0 /\ iv_buffer' = ZeroBytes(IvSize))
       /\ (SessionState' = "NonceOnly" /\ SessionState # "NonceOnly")
            => (result'.op = "generate_iv" /\ SessionState = "Uninitialized")]_vars

\* C14 witness: generate_iv returned the first nonce of a session that has no key.
C14_Witness ==
    /\ result.op = "generate_iv" /\ result.status = "ok"
    /\ SessionState = "NonceOnly"
    /\ persistent_iv /\ iv_counter = 1

\* C15: in every reachable state of a random-strategy session the counter is 0,
\* and generate_iv called there returns the twelve bytes os.urandom gives it,
\* whatever they are and whatever the state, and leaves the counter 0.
C15_RandomStrategyStateless ==
    ~persistent_iv
        => /\ iv_counter = 0
           /\ \A rnd12 \in Urandom(IvSize) :
                LET g == generate_iv(Self, <<>>, rnd12)
                IN  /\ g.err = ""
                    /\ g.iv = rnd12
                    /\ Len(g.iv) = IvSize
                    /\ g.s.iv_counter = 0

\* C15 witness: on a random-strategy session generate_iv returned a nonce other
\* than the one an earlier call returned.
C15_Witness ==
    /\ ~persistent_iv
    /\ result.op = "generate_iv" /\ result.status = "ok"
    /\ held.kind = "iv" /\ held.m.iv # result.ret.iv
    /\ calls >= 2 /\ iv_counter = 0

\* the number four bytes spell, most significant first
BE32(b) == ((b[1] * 256 + b[2]) * 256 + b[3]) * 256 + b[4]

\* the counter field of a nonce
CounterField(iv) == BE32(SubSeq(iv, PrefixSize + 1, IvSize))

\* the step is a generate_iv call, made directly or by encrypt
NonceCall == result'.op \in {"generate_iv", "encrypt"}

\* C16: on a persistent session a generate_iv call, direct or by encrypt, never
\* fails; made with the counter at its maximum it draws a prefix, returns that
\* prefix with counter 1, leaves the counter 1 and the key as it was (encrypt on a
\* session without a key having generated one before the call); made with
\* the counter below its maximum it keeps the prefix and moves the counter one up,
\* so the values 1 to the maximum go out under one prefix before the
\* reinitialization.
C16_ExhaustionReinitializes ==
    [][(persistent_iv /\ NonceCall)
        => /\ result'.status = "ok"
           /\ (initialized /\ iv_counter = 2 ^ CounterBits - 1)
                => (/\ iv_counter' = 1
                    /\ CounterField(result'.ret.iv) = 1
                    /\ Prefix(result'.ret.iv) = Prefix(iv_buffer')
                    /\ Prefix(iv_buffer') \in Urandom(PrefixSize)
                    /\ (result'.op = "generate_iv" \/ key # None) => key' = key)
           /\ (initialized /\ iv_counter < 2 ^ CounterBits - 1)
                => (/\ Prefix(iv_buffer') = Prefix(iv_buffer)
                    /\ Prefix(result'.ret.iv) = Prefix(iv_buffer)
                    /\ iv_counter' = iv_counter + 1
                    /\ CounterField(result'.ret.iv) = iv_counter + 1)
           /\ ~initialized => CounterField(result'.ret.iv) = 1]_vars

\* C16 witness: the call made with the counter at its maximum returned counter 1
\* under a prefix other than that of a nonce kept before, on a session with a key.
C16_Witness ==
    /\ persistent_iv /\ key # None
    /\ result.op = "generate_iv" /\ result.status = "ok"
    /\ calls = 2 ^ CounterBits
    /\ iv_counter = 1 /\ CounterField(result.ret.iv) = 1
    /\ held.kind = "iv" /\ Prefix(held.m.iv) # Prefix(result.ret.iv)

\* C17: on a persistent session the counter stays within 0..2^CounterBits-1, no
\* generate_iv call fails in the pack, and the number in the last four bytes of
\* every nonce returned is within 1..2^CounterBits-1, each byte a byte.
C17_CounterInRange ==
    [][persistent_iv
        => /\ iv_counter \in 0..(2 ^ CounterBits - 1)
           /\ iv_counter' \in 0..(2 ^ CounterBits - 1)
           /\ NonceCall
                => /\ result'.status # "struct.error"
                   /\ result'.status = "ok"
                        => /\ CounterField(result'.ret.iv) \in 1..(2 ^ CounterBits - 1)
                           /\ \A i \in (PrefixSize + 1)..IvSize :
                                result'.ret.iv[i] \in 0..255]_vars

\* C17 witness: encrypt returned a nonce whose counter field is the maximum.
C17_Witness ==
    /\ persistent_iv
    /\ result.op = "encrypt" /\ result.status = "ok"
    /\ iv_counter = 2 ^ CounterBits - 1
    /\ CounterField(result.ret.iv) = 2 ^ CounterBits - 1

\* C18: on a persistent session every nonce returned is the prefix the session
\* holds after the call followed by its counter after the call, four bytes most
\* significant first; a call on an initialized session with the counter below its
\* maximum returns the prefix held before and the counter before plus one, and the
\* first call of a session returns counter 1.
C18_NonceIsPrefixThenCounter ==
    [][(persistent_iv /\ NonceReturned)
        => /\ Len(result'.ret.iv) = IvSize
           /\ result'.ret.iv = iv_buffer'
           /\ Prefix(result'.ret.iv) = Prefix(iv_buffer')
           /\ CounterField(result'.ret.iv) = iv_counter'
           /\ (initialized /\ iv_counter < 2 ^ CounterBits - 1)
                => (/\ Prefix(result'.ret.iv) = Prefix(iv_buffer)
                    /\ CounterField(result'.ret.iv) = CounterField(iv_buffer) + 1
                    /\ iv_counter' = iv_counter + 1)
           /\ ~initialized => (iv_counter' = 1 /\ CounterField(result'.ret.iv) = 1)]_vars

\* C18 witness: encrypt returned the prefix of a nonce generate_iv had returned
\* before, with the counter that follows it.
C18_Witness ==
    /\ persistent_iv
    /\ result.op = "encrypt" /\ result.status = "ok"
    /\ held.kind = "iv"
    /\ Prefix(held.m.iv) = Prefix(result.ret.iv)
    /\ CounterField(result.ret.iv) = CounterField(held.m.iv) + 1
    /\ iv_counter = 2

\* the step is an encrypt call, made directly or by encrypt_combined
EncryptCall == result'.op \in {"encrypt", "encrypt_combined"}

\* C19: a step changes the key only if it is generate_key, a set_key that
\* succeeded, or an encrypt call on a session without a key; generate_iv (at
\* exhaustion too), decrypt, decrypt_combined, a set_key that failed and an encrypt
\* call on a session with a key leave the key as it was, and decrypt and
\* decrypt_combined leave the nonce state as it was.
C19_KeyChangesOnlyByRekey ==
    [][/\ key' # key
            => \/ result'.op = "generate_key"
               \/ result'.op = "set_key" /\ result'.status = "ok"
               \/ EncryptCall /\ key = None
       /\ result'.op \in {"decrypt", "decrypt_combined"}
            => (key' = key /\ NonceState' = NonceState)
       /\ result'.op = "generate_iv" => key' = key
       /\ (result'.op = "set_key" /\ result'.status # "ok") => key' = key
       /\ (EncryptCall /\ key # None) => key' = key]_vars

\* C19 witness: generate_iv, called with the counter at its maximum, reinitialized
\* the nonce state of a session that still holds the key of a frame sealed before.
C19_Witness ==
    /\ persistent_iv
    /\ result.op = "generate_iv" /\ result.status = "ok"
    /\ calls = 2 ^ CounterBits /\ iv_counter = 1
    /\ held.kind = "frame" /\ key = Some(held.m.key)

\* C20: when decrypt_combined is called with a frame of at least iv_size +
\* tag_size bytes, the slices it hands to decrypt are iv_size bytes, tag_size bytes
\* and, put together as iv, ciphertext, tag, the frame.
C20_SlicesPartitionFrame ==
    [][result'.op = "decrypt_combined"
        => \A c \in CombinedCalls :
            (Len(c.frame) >= c.iv_size + c.tag_size /\ DecryptCombinedOn(c))
                => LET x == FrameSlices(c.frame, c.iv_size, c.tag_size)
                   IN  /\ Len(x.iv) = c.iv_size
                       /\ Len(x.tag) = c.tag_size
                       /\ x.iv \o x.ct \o x.tag = c.frame]_vars

\* C21: when two encrypt calls have run concurrently on a session that had no key
\* and both returned, each returned message was encrypted under the key the
\* session holds now, and decrypt on the session returns its plaintext.
C21_ConcurrentEncryptsShareKey ==
    (\A t \in Threads : pc[t] = "done" /\ loc[t].call = "encrypt" /\ loc[t].err = "")
        => \A t \in Threads :
            /\ loc[t].m.key = key.v
            /\ decrypt(Self, loc[t].m.iv, loc[t].m.ct, loc[t].m.tag, None)
                = [err |-> "", pt |-> loc[t].m.pt]

====
